---------------------------- MODULE Spec2Model ----------------------------
(***************************************************************************)
(* A model of the CRI index pipeline: the daily snapshot store, the        *)
(* outlier filter, the windowed index calculation (calculate.py), the      *)
(* published series and the independent verifier (verify.py).              *)
(*                                                                         *)
(* Numbers.  In the pipeline a price is an integer count of 1e-6 dollars   *)
(* (the collector rounds to 6 decimals) and a value rounded to 4 decimals  *)
(* is a count of 1e-4; the outlier filter itself is unit-free integer      *)
(* arithmetic.  Python's statistics module computes mean                   *)
(* and variance exactly (as fractions), so the filter's comparison         *)
(*     abs(p - t_mean) <= sigma * stdev                                    *)
(* is modelled by the equivalent comparison of squares over the integers.  *)
(* A text cell of a CSV file is a tuple; the empty tuple is the empty or   *)
(* unparseable text.                                                       *)
(***************************************************************************)
EXTENDS Integers, Sequences, FiniteSets, TLC

VARIABLES
    store,      \* data/<model>/<date>.csv : the dph_per_gpu cells of its rows
    meta,       \* data/<model>/<date>.meta.json
    series,     \* outputs/*-index.csv     : absent, or its lines
    audits,     \* outputs/audits/*.audit.json
    clock,      \* the wall clock read by datetime.now()
    result,     \* what the last call of calculate() returned
    outcome,    \* what the last run of a command reported
    prices,     \* the argument of the last call of remove_outliers
    ret,        \* its return value, and which module's remove_outliers it was
    runs        \* the runs of calculate.py started side by side, and how far each is

vars == <<store, meta, series, audits, clock, result, outcome, prices, ret, runs>>

pipelineVars == <<store, meta, series, audits, clock, result, outcome, runs>>
filterVars   == <<prices, ret>>

---------------------------------------------------------------------------
(* Constants of the methodology: calculate.py and verify.py each set their *)
(* own copy.                                                               *)

OUTLIER_SIGMA_HALVES_half_sigma == 0 + 1

OUTLIER_SIGMA_HALVES   == 5     \* OUTLIER_SIGMA = 2.5, in halves
WINDOW_DAYS            == 7
MIN_OBSERVATIONS_DAY_off_by_one == 10 + 1   \* "<=" written for "<"
MIN_OBSERVATIONS_DAY   == 10
MIN_VALID_DAYS_off_by_one == 3 + 1          \* "<=" written for "<"
MIN_VALID_DAYS         == 3

V_OUTLIER_SIGMA_HALVES == 5
V_WINDOW_DAYS_one_day == 0 + 1

V_WINDOW_DAYS          == 7
V_MIN_OBSERVATIONS_DAY == 10

SMALL_SAMPLE           == 4     \* "if len(prices) < 4"
TRIM_PERCENT           == 10    \* "int(len(sorted_p) * 0.10)"
ROUND_DIGITS           == 4     \* "round(..., 4)"
PRICE_DIGITS           == 6     \* the collector writes "round(price, 6)"

---------------------------------------------------------------------------
(* Python built-ins and the statistics module, on integer sequences.       *)

None == <<>>
Some(v) == <<v>>
IsNone(x) == x = <<>>
Val(x) == x[1]

Max(a, b) == IF a >= b THEN a ELSE b
Abs(a) == IF a >= 0 THEN a ELSE 0 - a

Range(s) == {s[i] : i \in DOMAIN s}

RECURSIVE SeqSum(_)
SeqSum(s) == IF s = <<>> THEN 0 ELSE Head(s) + SeqSum(Tail(s))

RECURSIVE Pow(_, _)
Pow(b, e) == IF e = 0 THEN 1 ELSE b * Pow(b, e - 1)

Count(v, s) == Cardinality({i \in DOMAIN s : s[i] = v})

SameMultiset(s, t) ==
    /\ Len(s) = Len(t)
    /\ \A v \in Range(s) \cup Range(t) : Count(v, s) = Count(v, t)

sorted(s) == SortSeq(s, LAMBDA a, b : a < b)

SeqMin(s) == CHOOSE v \in Range(s) : \A w \in Range(s) : v <= w
SeqMax(s) == CHOOSE v \in Range(s) : \A w \in Range(s) : v >= w

\* n(n-1) times the sample variance times n, i.e. n*sum(x^2) - sum(x)^2,
\* computed on the offsets from the smallest value (the variance does not
\* depend on a shift).  statistics.stdev(s) = sqrt(VarNum(s) / (n*(n-1))).
VarNum(s) ==
    LET base == SeqMin(s)
        d    == [i \in DOMAIN s |-> s[i] - base]
        sq   == [i \in DOMAIN s |-> d[i] * d[i]]
    IN  Len(s) * SeqSum(sq) - SeqSum(d) * SeqSum(d)

\* statistics.median, doubled: the middle value, or the sum of the two
\* middle values.
Median2(s) ==
    LET t == sorted(s)
        n == Len(s)
    IN  IF n % 2 = 1 THEN 2 * t[(n + 1) \div 2]
        ELSE t[n \div 2] + t[n \div 2 + 1]

\* num/den rounded to the nearest integer, a tie to the even one.
RoundDiv(num, den) ==
    LET q == num \div den
        r == num % den
    IN  IF 2 * r < den THEN q
        ELSE IF 2 * r > den THEN q + 1
        ELSE IF q % 2 = 0 THEN q ELSE q + 1

\* The largest r with r*r <= x.
RECURSIVE IsqrtFrom(_, _)
IsqrtFrom(x, r) == IF (r + 1) * (r + 1) > x THEN r ELSE IsqrtFrom(x, r + 1)
Isqrt(x) == IsqrtFrom(x, 0)

---------------------------------------------------------------------------
(* remove_outliers.  The return value carries, beside (cleaned, n_removed),*)
(* the return statement that produced it.                                  *)

trim_n(n) == Max(1, (n * TRIM_PERCENT) \div 100)

\* The trim taken from the list as given, not from the sorted list.
trimmed_unsorted(ps) == SubSeq(ps, trim_n(Len(ps)) + 1, Len(ps) - trim_n(Len(ps)))

trimmed(ps) == SubSeq(sorted(ps), trim_n(Len(ps)) + 1, Len(ps) - trim_n(Len(ps)))

\* abs(p - t_mean) <= sigma * stdev, with t_mean = T/m, sigma = h/2 and
\* stdev = sqrt(B / (n*(n-1))): both sides squared and the divisions
\* multiplied out.
within_threshold(p, T, m, n, B, h) ==
    4 * (p * m - T) * (p * m - T) * n * (n - 1) <= h * h * m * m * B

Raised == [cleaned |-> <<>>, n_removed |-> 0, branch |-> "StatisticsError"]

\* Without the return on a zero standard deviation.
threshold_filter_no_zero_check(ps, h) ==
    LET tr == trimmed(ps)
        n  == Len(ps)
        m  == Len(tr)
        T  == SeqSum(tr)
        B  == VarNum(ps)
        cleaned == SelectSeq(ps, LAMBDA p : within_threshold(p, T, m, n, B, h))
    IN  IF m = 0 \/ n < 2 THEN Raised
        ELSE [cleaned |-> cleaned, n_removed |-> Len(ps) - Len(cleaned),
              branch |-> "threshold"]

\* The standard deviation taken over the trimmed list, not the full one.
threshold_filter_trimmed_stdev(ps, h) ==
    LET tr == trimmed(ps)
        n  == Len(tr)
        m  == Len(tr)
        T  == SeqSum(tr)
        B  == IF tr = <<>> THEN 0 ELSE VarNum(tr)
        cleaned == SelectSeq(ps, LAMBDA p : within_threshold(p, T, m, n, B, h))
    IN  IF m = 0 \/ n < 2 THEN Raised
        ELSE IF B = 0 THEN [cleaned |-> ps, n_removed |-> 0, branch |-> "zero_stdev"]
        ELSE [cleaned |-> cleaned, n_removed |-> Len(ps) - Len(cleaned),
              branch |-> "threshold"]

threshold_filter(ps, h) ==
    LET tr == trimmed(ps)
        n  == Len(ps)
        m  == Len(tr)
        T  == SeqSum(tr)
        B  == VarNum(ps)
        cleaned == SelectSeq(ps, LAMBDA p : within_threshold(p, T, m, n, B, h))
    IN  IF m = 0 \/ n < 2 THEN Raised   \* statistics.mean([]), stdev of one point
        ELSE IF B = 0 THEN [cleaned |-> ps, n_removed |-> 0, branch |-> "zero_stdev"]
        ELSE [cleaned |-> cleaned, n_removed |-> Len(ps) - Len(cleaned),
              branch |-> "threshold"]

\* Without the return on fewer than 4 prices.
remove_outliers_no_small_guard(ps, h) == threshold_filter(ps, h)

remove_outliers(ps, h) ==
    IF Len(ps) < SMALL_SAMPLE
    THEN [cleaned |-> ps, n_removed |-> 0, branch |-> "small"]
    ELSE threshold_filter(ps, h)

v_remove_outliers(ps) ==
    IF Len(ps) < SMALL_SAMPLE
    THEN [cleaned |-> ps, n_removed |-> 0, branch |-> "small"]
    ELSE threshold_filter(ps, V_OUTLIER_SIGMA_HALVES)

---------------------------------------------------------------------------
(* The model table of calculate.py and of verify.py.  A name or a path is  *)
(* a tuple of characters (the directory and the file suffix one token      *)
(* each), so that str.lower() and the paths built from it are computed.    *)

AllModels == {"h100-sxm-us", "a100-sxm-us", "a100-pcie-us", "h200-us", "h200-nvl-us",
              "h100-pcie-us", "v100-us", "l40s-us", "rtx4090-us"}

CRI == <<"C", "R", "I", "-">>
cri == <<"c", "r", "i", "-">>

MODEL_CONFIGS == [m \in AllModels |->
    CASE m = "h100-sxm-us"  -> [index_name |-> CRI \o <<"H", "1", "0", "0">>,
                                data_subdir |-> "h100-sxm-us"]
      [] m = "a100-sxm-us"  -> [index_name |-> CRI \o <<"A", "1", "0", "0">>,
                                data_subdir |-> "a100-sxm-us"]
      [] m = "a100-pcie-us" -> [index_name |-> CRI \o <<"A", "1", "0", "0", "-", "P", "C", "I", "e">>,
                                data_subdir |-> "a100-pcie-us"]
      [] m = "h200-us"      -> [index_name |-> CRI \o <<"H", "2", "0", "0">>,
                                data_subdir |-> "h200-us"]
      [] m = "h200-nvl-us"  -> [index_name |-> CRI \o <<"H", "2", "0", "0", "-", "N", "V", "L">>,
                                data_subdir |-> "h200-nvl-us"]
      [] m = "h100-pcie-us" -> [index_name |-> CRI \o <<"H", "1", "0", "0", "-", "P", "C", "I", "e">>,
                                data_subdir |-> "h100-pcie-us"]
      [] m = "v100-us"      -> [index_name |-> CRI \o <<"V", "1", "0", "0">>,
                                data_subdir |-> "v100-us"]
      [] m = "l40s-us"      -> [index_name |-> CRI \o <<"L", "4", "0", "S">>,
                                data_subdir |-> "l40s-us"]
      [] m = "rtx4090-us"   -> [index_name |-> CRI \o <<"4", "0", "9", "0">>,
                                data_subdir |-> "rtx4090-us"]]

OutputsDir  == <<"outputs/">>
IndexSuffix == <<"-index.csv">>

INDEX_OUTPUT == OutputsDir \o cri \o <<"h", "1", "0", "0">> \o IndexSuffix

V_MODEL_CONFIGS == [m \in AllModels |->
    CASE m = "h100-sxm-us"  -> [index_name |-> CRI \o <<"H", "1", "0", "0">>,
                                data_subdir |-> "h100-sxm-us",
                                index_csv |-> OutputsDir \o cri \o <<"h", "1", "0", "0">> \o IndexSuffix]
      [] m = "a100-sxm-us"  -> [index_name |-> CRI \o <<"A", "1", "0", "0">>,
                                data_subdir |-> "a100-sxm-us",
                                index_csv |-> OutputsDir \o cri \o <<"a", "1", "0", "0">> \o IndexSuffix]
      [] m = "a100-pcie-us" -> [index_name |-> CRI \o <<"A", "1", "0", "0", "-", "P", "C", "I", "e">>,
                                data_subdir |-> "a100-pcie-us",
                                index_csv |-> OutputsDir \o cri
                                    \o <<"a", "1", "0", "0", "-", "p", "c", "i", "e">> \o IndexSuffix]
      [] m = "h200-us"      -> [index_name |-> CRI \o <<"H", "2", "0", "0">>,
                                data_subdir |-> "h200-us",
                                index_csv |-> OutputsDir \o cri \o <<"h", "2", "0", "0">> \o IndexSuffix]
      [] m = "h200-nvl-us"  -> [index_name |-> CRI \o <<"H", "2", "0", "0", "-", "N", "V", "L">>,
                                data_subdir |-> "h200-nvl-us",
                                index_csv |-> OutputsDir \o cri
                                    \o <<"h", "2", "0", "0", "-", "n", "v", "l">> \o IndexSuffix]
      [] m = "h100-pcie-us" -> [index_name |-> CRI \o <<"H", "1", "0", "0", "-", "P", "C", "I", "e">>,
                                data_subdir |-> "h100-pcie-us",
                                index_csv |-> OutputsDir \o cri
                                    \o <<"h", "1", "0", "0", "-", "p", "c", "i", "e">> \o IndexSuffix]
      [] m = "v100-us"      -> [index_name |-> CRI \o <<"V", "1", "0", "0">>,
                                data_subdir |-> "v100-us",
                                index_csv |-> OutputsDir \o cri \o <<"v", "1", "0", "0">> \o IndexSuffix]
      [] m = "l40s-us"      -> [index_name |-> CRI \o <<"L", "4", "0", "S">>,
                                data_subdir |-> "l40s-us",
                                index_csv |-> OutputsDir \o cri \o <<"l", "4", "0", "s">> \o IndexSuffix]
      [] m = "rtx4090-us"   -> [index_name |-> CRI \o <<"4", "0", "9", "0">>,
                                data_subdir |-> "rtx4090-us",
                                index_csv |-> OutputsDir \o cri \o <<"4", "0", "9", "0">> \o IndexSuffix]]

UpperCase == <<"A", "B", "C", "D", "E", "F", "G", "H", "I", "J", "K", "L", "M",
               "N", "O", "P", "Q", "R", "S", "T", "U", "V", "W", "X", "Y", "Z">>
LowerCase == <<"a", "b", "c", "d", "e", "f", "g", "h", "i", "j", "k", "l", "m",
               "n", "o", "p", "q", "r", "s", "t", "u", "v", "w", "x", "y", "z">>

lower_char(c) ==
    IF \E i \in DOMAIN UpperCase : UpperCase[i] = c
    THEN LowerCase[CHOOSE i \in DOMAIN UpperCase : UpperCase[i] = c]
    ELSE c

lower(s) == [i \in DOMAIN s |-> lower_char(s[i])]

\* main(): "primary model uses the standard path, others use model-specific".
output_path(model) ==
    IF model = "h100-sxm-us" THEN INDEX_OUTPUT
    ELSE OutputsDir \o lower(MODEL_CONFIGS[model].index_name) \o IndexSuffix

---------------------------------------------------------------------------
(* The snapshot store.  store[<<dir, d>>] is None when data/<dir>/<d>.csv  *)
(* does not exist, else Some(rows), one dph_per_gpu cell per row: <<p>> is *)
(* the text of the price p (an integer count of 1e-6 dollars), <<>> a text *)
(* float() rejects.  A date is its day number; a date outside the store's  *)
(* domain has no file.                                                     *)

snapshot(model_dir, d) ==
    IF <<model_dir, d>> \in DOMAIN store THEN store[<<model_dir, d>>] ELSE None

\* "try: prices.append(float(row[...])) except (KeyError, ValueError): continue"
parsed_prices(rows) ==
    LET good == SelectSeq(rows, LAMBDA c : c # <<>>)
    IN  [i \in DOMAIN good |-> good[i][1]]

load_daily_prices(model_dir, d) ==
    LET f == snapshot(model_dir, d)
    IN  IF IsNone(f) THEN None
        ELSE IF parsed_prices(Val(f)) = <<>> THEN None
        ELSE Some(parsed_prices(Val(f)))

load_prices(model_dir, d) ==
    LET f == snapshot(model_dir, d)
    IN  IF IsNone(f) THEN None
        ELSE IF parsed_prices(Val(f)) = <<>> THEN None
        ELSE Some(parsed_prices(Val(f)))

---------------------------------------------------------------------------
(* round(x, 4) of the statistics of a list of prices, as a count of 1e-4.  *)

UnitsPerStep == Pow(10, PRICE_DIGITS - ROUND_DIGITS)

round_price(p)   == RoundDiv(p, UnitsPerStep)
round_median(ps) == RoundDiv(Median2(ps), 2 * UnitsPerStep)
round_mean(ps)   == RoundDiv(SeqSum(ps), Len(ps) * UnitsPerStep)

\* round(sqrt(B / (n*(n-1))) / UnitsPerStep): the r with
\* (2r-1)^2 <= 4*B / (n*(n-1)*UnitsPerStep^2) < (2r+1)^2.
round_stdev(ps) ==
    LET n == Len(ps)
        d == n * (n - 1) * UnitsPerStep * UnitsPerStep
    IN  (Isqrt((4 * VarNum(ps)) \div d) + 1) \div 2

---------------------------------------------------------------------------
(* calculate().                                                            *)

\* The dates of the window, newest first.
window_dates_newest_first(end, window_days) == [i \in 1..window_days |-> end - (i - 1)]

\* The dates of the window, oldest first.
window_dates(end, window_days) == [i \in 1..window_days |-> end - (window_days - i)]

\* A thin day's prices added to the pool before the admission test.
calc_day_pools_thin(model_dir, d) ==
    LET raw == load_daily_prices(model_dir, d) IN
    IF IsNone(raw)
    THEN [summary |-> [date |-> d, status |-> "missing", n |-> 0],
          prices |-> <<>>, valid |-> 0]
    ELSE IF Len(Val(raw)) < MIN_OBSERVATIONS_DAY
    THEN [summary |-> [date |-> d, status |-> "low_confidence",
                       n_raw |-> Len(Val(raw)), n_used |-> 0],
          prices |-> Val(raw), valid |-> 0]
    ELSE LET r == remove_outliers(Val(raw), OUTLIER_SIGMA_HALVES) IN
         [summary |-> [date |-> d, status |-> "included",
                       n_raw |-> Len(Val(raw)), n_removed |-> r.n_removed,
                       n_used |-> Len(r.cleaned),
                       daily_median |-> round_median(r.cleaned),
                       daily_mean |-> round_mean(r.cleaned)],
          prices |-> r.cleaned, valid |-> 1]

\* One pass of the loop body: the day's summary, the prices it adds to the
\* pool and what it adds to valid_days.
calc_day(model_dir, d) ==
    LET raw == load_daily_prices(model_dir, d) IN
    IF IsNone(raw)
    THEN [summary |-> [date |-> d, status |-> "missing", n |-> 0],
          prices |-> <<>>, valid |-> 0]
    ELSE IF Len(Val(raw)) < MIN_OBSERVATIONS_DAY
    THEN [summary |-> [date |-> d, status |-> "low_confidence",
                       n_raw |-> Len(Val(raw)), n_used |-> 0],
          prices |-> <<>>, valid |-> 0]
    ELSE LET r == remove_outliers(Val(raw), OUTLIER_SIGMA_HALVES) IN
         IF r.cleaned = <<>>
         THEN [summary |-> [date |-> d, status |-> "empty_after_outlier_removal",
                            n_raw |-> Len(Val(raw)), n_used |-> 0],
               prices |-> <<>>, valid |-> 0]
         ELSE [summary |-> [date |-> d, status |-> "included",
                            n_raw |-> Len(Val(raw)), n_removed |-> r.n_removed,
                            n_used |-> Len(r.cleaned),
                            daily_median |-> round_median(r.cleaned),
                            daily_mean |-> round_mean(r.cleaned)],
               prices |-> r.cleaned, valid |-> 1]

RECURSIVE calc_walk(_, _, _)
calc_walk(model_dir, dates, acc) ==
    IF dates = <<>> THEN acc
    ELSE LET day == calc_day(model_dir, Head(dates)) IN
         calc_walk(model_dir, Tail(dates),
                   [all_prices      |-> acc.all_prices \o day.prices,
                    daily_summaries |-> Append(acc.daily_summaries, day.summary),
                    valid_days      |-> acc.valid_days + day.valid])

\* daily_summaries kept from the call before (a list that is never cleared).
calc_start_stale ==
    [all_prices      |-> <<>>,
     daily_summaries |-> IF result = <<>> THEN <<>> ELSE result[1].ret.daily,
     valid_days      |-> 0]

calc_start == [all_prices |-> <<>>, daily_summaries |-> <<>>, valid_days |-> 0]

calculate(model_dir, end_date, window_days, index_name) ==
    LET acc == calc_walk(model_dir, window_dates(end_date, window_days), calc_start)
        all_prices == acc.all_prices
        low_conf   == acc.valid_days < MIN_VALID_DAYS
    IN  IF all_prices = <<>>
        THEN [end_date              |-> end_date,
              index_name            |-> index_name,
              index_value           |-> None,
              low_confidence        |-> TRUE,
              low_confidence_reason |-> Some("no valid observations in window"),
              valid_days            |-> 0,
              daily                 |-> acc.daily_summaries]
        ELSE [ccir_version          |-> "1.1.0",
              index_name            |-> index_name,
              end_date              |-> end_date,
              window_days           |-> window_days,
              index_value           |-> Some(round_median(all_prices)),
              n_observations        |-> Len(all_prices),
              valid_days            |-> acc.valid_days,
              low_confidence        |-> low_conf,
              low_confidence_reason |->
                  IF low_conf
                  THEN Some("only " \o ToString(acc.valid_days) \o " valid days in "
                            \o ToString(window_days) \o "-day window")
                  ELSE None,
              summary               |->
                  [min   |-> round_price(SeqMin(all_prices)),
                   max   |-> round_price(SeqMax(all_prices)),
                   mean  |-> round_mean(all_prices),
                   stdev |-> IF Len(all_prices) > 1 THEN Some(round_stdev(all_prices))
                             ELSE None],
              daily                 |-> acc.daily_summaries,
              methodology           |-> "Trailing " \o ToString(window_days)
                                        \o "-day median $/GPU-hour",
              calculated_utc        |-> clock]

---------------------------------------------------------------------------
(* The outlier filter as a function: its inputs are drawn in FilterInit    *)
(* and every later call is made on a rearrangement of the last argument.   *)

MaxLen      == 11    \* lists over FilterValues2 have at most this length
MaxLenMixed == 7     \* lists over FilterValues3 have at most this length

FilterValues2 == {1, 100}
FilterValues3 == {1, 2, 100}

SeqsUpTo(S, n) == UNION {[1..k -> S] : k \in 0..n}

FilterInputs == SeqsUpTo(FilterValues2, MaxLen) \cup SeqsUpTo(FilterValues3, MaxLenMixed)

NotCalled == [cleaned |-> <<>>, n_removed |-> 0, branch |-> "not_called", fn |-> "none"]

Returned(r, fn) == [cleaned |-> r.cleaned, n_removed |-> r.n_removed,
                    branch |-> r.branch, fn |-> fn]

Swap(s, i, j) == [k \in DOMAIN s |-> IF k = i THEN s[j] ELSE IF k = j THEN s[i] ELSE s[k]]

\* The list itself and the lists that exchange two neighbours of it: every
\* permutation is reached by a sequence of such exchanges.
Rearrangements(s) ==
    {s} \cup {Swap(s, i, i + 1) : i \in 1..(Len(s) - 1)}

NoOutcome == [cmd |-> "none"]

PipelineIdle ==
    /\ store = <<>>
    /\ meta = <<>>
    /\ series = <<>>
    /\ audits = <<>>
    /\ clock = 0
    /\ result = None
    /\ outcome = NoOutcome
    /\ runs = <<>>

FilterInit ==
    /\ PipelineIdle
    /\ prices \in FilterInputs
    /\ ret = NotCalled

FilterCall ==
    \E ps \in Rearrangements(prices) :
        /\ prices' = ps
        /\ ret' = Returned(remove_outliers(ps, OUTLIER_SIGMA_HALVES), "calculate")
        /\ UNCHANGED pipelineVars

VFilterCall ==
    \E ps \in Rearrangements(prices) :
        /\ prices' = ps
        /\ ret' = Returned(v_remove_outliers(ps), "verify")
        /\ UNCHANGED pipelineVars

FilterNext == FilterCall \/ VFilterCall

SpecFilter == FilterInit /\ [][FilterNext]_vars

---------------------------------------------------------------------------
(* Snapshot files the model draws from.  Prices are counts of 1e-6 dollars.*)

Repeat(c, n) == [i \in 1..n |-> c]

FileUnparseable == <<<<>>>>                                    \* one row, no price
FileThin == Repeat(<<1834030>>, 9) \o <<<<>>>>                  \* 9 prices of 10 rows
FileA    == Repeat(<<1834030>>, 10)                             \* 10 prices, 1.83403
FileB    == Repeat(<<1834070>>, 10) \o <<<<1834170>>>>          \* 11 prices, one far

Files == {None, Some(FileUnparseable), Some(FileThin), Some(FileA), Some(FileB)}

---------------------------------------------------------------------------
(* calculate() as a function: the store is drawn in CalcInit and never     *)
(* written; every step is one call of calculate().  result is the record   *)
(* of the last call: its arguments, the files of its window as they were   *)
(* when it ran, the pool it built (the local all_prices), what it returned *)
(* and how many calls with the same arguments and files preceded it in a   *)
(* row.                                                                    *)

MaxDate   == 3      \* snapshots exist for the dates 1..MaxDate
MaxClock  == 2      \* calls of calculate() in one behaviour

Dates   == 1..MaxDate
Windows == {1, WINDOW_DAYS}    \* --window 1, and the default

CalcModel == "h100-sxm-us"

window_files(model_dir, end_date, window_days) ==
    [i \in 1..window_days |-> snapshot(model_dir, window_dates(end_date, window_days)[i])]

SameCall(c, model_dir, end_date, window_days, index_name) ==
    /\ c.model_dir = model_dir
    /\ c.end_date = end_date
    /\ c.window_days = window_days
    /\ c.index_name = index_name
    /\ c.inputs = window_files(model_dir, end_date, window_days)

CallRecord(model_dir, end_date, window_days, index_name) ==
    [model_dir   |-> model_dir,
     end_date    |-> end_date,
     window_days |-> window_days,
     index_name  |-> index_name,
     inputs      |-> window_files(model_dir, end_date, window_days),
     all_prices  |-> calc_walk(model_dir, window_dates(end_date, window_days),
                               calc_start).all_prices,
     ret         |-> calculate(model_dir, end_date, window_days, index_name),
     repeat      |-> IF result # None
                        /\ SameCall(Val(result), model_dir, end_date, window_days, index_name)
                     THEN Val(result).repeat + 1 ELSE 0]

CalcInit ==
    /\ store \in [{MODEL_CONFIGS[CalcModel].data_subdir} \X Dates -> Files]
    /\ meta = <<>>
    /\ series = <<>>
    /\ audits = <<>>
    /\ clock = 0
    /\ result = None
    /\ outcome = NoOutcome
    /\ prices = <<>>
    /\ ret = NotCalled
    /\ runs = <<>>

Calculate(model, end_date, window_days) ==
    /\ clock < MaxClock
    /\ result' = Some(CallRecord(MODEL_CONFIGS[model].data_subdir, end_date, window_days,
                                 MODEL_CONFIGS[model].index_name))
    /\ clock' = clock + 1
    /\ UNCHANGED <<store, meta, series, audits, outcome, filterVars, runs>>

CalcNext == \E end_date \in Dates, window_days \in Windows :
                Calculate(CalcModel, end_date, window_days)

SpecCalc == CalcInit /\ [][CalcNext]_vars

---------------------------------------------------------------------------
(* Texts of the published series.  A cell is a tuple: the text of a float  *)
(* is its integer part followed by its decimal digits as repr() writes     *)
(* them (no trailing zero, at least one digit), the text of None is empty. *)

RECURSIVE rstrip_zeros(_)
rstrip_zeros(ds) ==
    IF Len(ds) > 1 /\ ds[Len(ds)] = 0 THEN rstrip_zeros(SubSeq(ds, 1, Len(ds) - 1))
    ELSE ds

\* str() of a float that holds v / 10^ROUND_DIGITS.
float_text(v) ==
    LET unit == Pow(10, ROUND_DIGITS)
        ds   == [i \in 1..ROUND_DIGITS |-> ((v % unit) \div Pow(10, ROUND_DIGITS - i)) % 10]
    IN  <<v \div unit>> \o rstrip_zeros(ds)

\* float() of such a text, as a count of 10^-ROUND_DIGITS.
float_of(text) ==
    text[1] * Pow(10, ROUND_DIGITS)
        + SeqSum([i \in 1..(Len(text) - 1) |-> text[i + 1] * Pow(10, ROUND_DIGITS - i)])

date_text(d) == <<d>>
int_text(n)  == <<n>>
bool_text(b) == IF b THEN <<"True">> ELSE <<"False">>
opt_float_text(o) == IF IsNone(o) THEN <<>> ELSE float_text(Val(o))

index_header ==
    <<"publication_date", "end_date", "window_days", "index_name", "index_value",
      "n_observations", "valid_days", "low_confidence", "min", "max", "mean", "stdev",
      "ccir_version", "calculated_utc">>

\* The row append_to_index() writes for a result that has a value.
index_row(r) ==
    <<date_text(clock),
      date_text(r.end_date),
      int_text(r.window_days),
      r.index_name,
      opt_float_text(r.index_value),
      int_text(r.n_observations),
      int_text(r.valid_days),
      bool_text(r.low_confidence),
      float_text(r.summary.min),
      float_text(r.summary.max),
      float_text(r.summary.mean),
      opt_float_text(r.summary.stdev),
      <<r.ccir_version>>,
      date_text(r.calculated_utc)>>

\* series[p] is None while the file p does not exist, else Some(lines).
series_file(p) == IF p \in DOMAIN series THEN series[p] ELSE None

append_to_index(r, path) ==
    LET write_header == IsNone(series_file(path))
        old == IF write_header THEN <<index_header>> ELSE Val(series_file(path))
    IN  [series EXCEPT ![path] = Some(Append(old, index_row(r)))]

AuditDir    == <<"outputs/audits/">>
AuditSuffix == <<".audit.json">>

replace_space(s) == [i \in DOMAIN s |-> IF s[i] = " " THEN "-" ELSE s[i]]

audit_path(index_name, end_date) ==
    AuditDir \o replace_space(lower(index_name)) \o <<"-">> \o date_text(end_date)
        \o AuditSuffix

write_audit(r, end_date, index_name) ==
    [audits EXCEPT ![audit_path(index_name, end_date)] = Some(r)]

\* csv.DictReader: the cell of line i under the column col, None without it.
csv_cell(lines, i, col) ==
    IF \E k \in DOMAIN lines[1] : lines[1][k] = col /\ k \in DOMAIN lines[i]
    THEN Some(lines[i][CHOOSE k \in DOMAIN lines[1] : lines[1][k] = col])
    ELSE None

\* The first row of the end date that has one of the value columns decides.
get_published_value(index_csv, end_date) ==
    IF IsNone(series_file(index_csv)) THEN None
    ELSE LET lines == Val(series_file(index_csv))
             hits  == {i \in 2..Len(lines) :
                          /\ csv_cell(lines, i, "end_date") = Some(date_text(end_date))
                          /\ \/ csv_cell(lines, i, "index_value") # None
                             \/ csv_cell(lines, i, "cri_h100") # None}
         IN  IF hits = {} THEN None
             ELSE LET i   == CHOOSE h \in hits : \A g \in hits : h <= g
                      val == IF csv_cell(lines, i, "index_value") # None
                             THEN Val(csv_cell(lines, i, "index_value"))
                             ELSE Val(csv_cell(lines, i, "cri_h100"))
                  IN  IF val = <<>> THEN None ELSE Some(float_of(val))

---------------------------------------------------------------------------
(* verify.py.                                                              *)

\* hashlib.sha256 of the file's bytes: distinct contents, distinct digests.
sha256(rows) == <<"sha256", rows>>

meta_file(model_dir, d) ==
    IF <<model_dir, d>> \in DOMAIN meta THEN meta[<<model_dir, d>>] ELSE None

\* None (cannot verify), Some(TRUE) or Some(FALSE).
verify_hash(model_dir, d) ==
    IF IsNone(snapshot(model_dir, d)) \/ IsNone(meta_file(model_dir, d)) THEN None
    ELSE LET actual_hash   == sha256(Val(snapshot(model_dir, d)))
             recorded_hash == Val(meta_file(model_dir, d)).provenance_sha256
         IN  IF IsNone(recorded_hash) THEN None
             ELSE Some(actual_hash = Val(recorded_hash))

\* One pass of verify()'s loop body: the line it prints, the prices it adds
\* to the pool, and what it adds to valid_days and to hash_failures.
verify_day(model_dir, d) ==
    LET hash_ok     == verify_hash(model_dir, d)
        hash_status == IF hash_ok = Some(TRUE) THEN "hash ok"
                       ELSE IF hash_ok = Some(FALSE) THEN "HASH MISMATCH" ELSE ""
        failed      == IF hash_ok = Some(FALSE) THEN 1 ELSE 0
        raw         == load_prices(model_dir, d)
    IN  IF IsNone(raw)
        THEN [line |-> [date |-> d, text |-> "MISSING", hash_status |-> ""],
              prices |-> <<>>, valid |-> 0, hash_failure |-> failed]
        ELSE IF Len(Val(raw)) < V_MIN_OBSERVATIONS_DAY
        THEN [line |-> [date |-> d, text |-> "LOW CONFIDENCE", hash_status |-> ""],
              prices |-> <<>>, valid |-> 0, hash_failure |-> failed]
        ELSE LET r == v_remove_outliers(Val(raw)) IN
             IF r.cleaned = <<>>
             THEN [line |-> [date |-> d, text |-> "EMPTY after outlier removal",
                             hash_status |-> ""],
                   prices |-> <<>>, valid |-> 0, hash_failure |-> failed]
             ELSE [line |-> [date |-> d, text |-> "after outlier removal",
                             hash_status |-> hash_status],
                   prices |-> r.cleaned, valid |-> 1, hash_failure |-> failed]

RECURSIVE verify_walk(_, _, _)
verify_walk(model_dir, dates, acc) ==
    IF dates = <<>> THEN acc
    ELSE LET day == verify_day(model_dir, Head(dates)) IN
         verify_walk(model_dir, Tail(dates),
                     [all_prices    |-> acc.all_prices \o day.prices,
                      lines         |-> Append(acc.lines, day.line),
                      valid_days    |-> acc.valid_days + day.valid,
                      hash_failures |-> acc.hash_failures + day.hash_failure])

verify_start == [all_prices |-> <<>>, lines |-> <<>>, valid_days |-> 0, hash_failures |-> 0]

\* The published value is looked up before the pool is tested.
verify_report_lookup_first(end_date, model_id, acc) ==
    LET published == get_published_value(V_MODEL_CONFIGS[model_id].index_csv, end_date)
        run       == [cmd |-> "verify", model |-> model_id, end_date |-> end_date,
                      lines |-> acc.lines, hash_failures |-> acc.hash_failures,
                      warning |-> acc.hash_failures > 0, all_prices |-> acc.all_prices]
    IN  IF IsNone(published)
        THEN run @@ [status |-> "NOT_FOUND", exit_code |-> 1,
                     reproduced |-> None, published |-> None, diff |-> None]
        ELSE IF acc.all_prices = <<>>
        THEN run @@ [status |-> "NO_DATA", exit_code |-> 1,
                     reproduced |-> None, published |-> None, diff |-> None]
        ELSE IF round_median(acc.all_prices) = Val(published)
        THEN run @@ [status |-> "MATCH", exit_code |-> 0,
                     reproduced |-> Some(round_median(acc.all_prices)),
                     published |-> published, diff |-> None]
        ELSE run @@ [status |-> "MISMATCH", exit_code |-> 1,
                     reproduced |-> Some(round_median(acc.all_prices)),
                     published |-> published,
                     diff |-> Some(Abs(round_median(acc.all_prices) - Val(published)))]

\* A day with a hash mismatch makes the run end in MISMATCH.
verify_report_hash_decides(end_date, model_id, acc) ==
    LET published == get_published_value(V_MODEL_CONFIGS[model_id].index_csv, end_date)
        run       == [cmd |-> "verify", model |-> model_id, end_date |-> end_date,
                      lines |-> acc.lines, hash_failures |-> acc.hash_failures,
                      warning |-> acc.hash_failures > 0, all_prices |-> acc.all_prices]
    IN  IF acc.all_prices = <<>>
        THEN run @@ [status |-> "NO_DATA", exit_code |-> 1,
                     reproduced |-> None, published |-> None, diff |-> None]
        ELSE IF IsNone(published)
        THEN run @@ [status |-> "NOT_FOUND", exit_code |-> 1,
                     reproduced |-> Some(round_median(acc.all_prices)),
                     published |-> None, diff |-> None]
        ELSE IF round_median(acc.all_prices) = Val(published) /\ acc.hash_failures = 0
        THEN run @@ [status |-> "MATCH", exit_code |-> 0,
                     reproduced |-> Some(round_median(acc.all_prices)),
                     published |-> published, diff |-> None]
        ELSE run @@ [status |-> "MISMATCH", exit_code |-> 1,
                     reproduced |-> Some(round_median(acc.all_prices)),
                     published |-> published,
                     diff |-> Some(Abs(round_median(acc.all_prices) - Val(published)))]

\* verify() after its loop, acc being what the loop gathered: what the run
\* prints and the status it exits with.  status names the branch taken:
\* "ERROR: No valid observations" (NO_DATA), "Published value: NOT FOUND"
\* (NOT_FOUND), "MATCH", "MISMATCH".  Values and diff are counts of 1e-4.
verify_report(end_date, model_id, acc) ==
    LET published == get_published_value(V_MODEL_CONFIGS[model_id].index_csv, end_date)
        run       == [cmd |-> "verify", model |-> model_id, end_date |-> end_date,
                      lines |-> acc.lines, hash_failures |-> acc.hash_failures,
                      warning |-> acc.hash_failures > 0, all_prices |-> acc.all_prices]
    IN  IF acc.all_prices = <<>>
        THEN run @@ [status |-> "NO_DATA", exit_code |-> 1,
                     reproduced |-> None, published |-> None, diff |-> None]
        ELSE IF IsNone(published)
        THEN run @@ [status |-> "NOT_FOUND", exit_code |-> 1,
                     reproduced |-> Some(round_median(acc.all_prices)),
                     published |-> None, diff |-> None]
        ELSE IF round_median(acc.all_prices) = Val(published)
        THEN run @@ [status |-> "MATCH", exit_code |-> 0,
                     reproduced |-> Some(round_median(acc.all_prices)),
                     published |-> published, diff |-> None]
        ELSE run @@ [status |-> "MISMATCH", exit_code |-> 1,
                     reproduced |-> Some(round_median(acc.all_prices)),
                     published |-> published,
                     diff |-> Some(Abs(round_median(acc.all_prices) - Val(published)))]

verify(end_date, model_id) ==
    verify_report(end_date, model_id,
                  verify_walk(V_MODEL_CONFIGS[model_id].data_subdir,
                              window_dates(end_date, V_WINDOW_DAYS), verify_start))

---------------------------------------------------------------------------
(* The pipeline: the collector writes snapshots, calculate.py's main()     *)
(* publishes, verify.py checks.  Every step is one run of a command, and   *)
(* outcome is what the last run reported.                                  *)

PipeModel == "a100-pcie-us"
PipeDates == {1, 2}

FileNine == Repeat(<<1834030>>, 9)                              \* 9 prices

\* What the collector can find in the market on a day.
Offers == {FileNine, FileA, FileB}

SnapshotKeys == {MODEL_CONFIGS[PipeModel].data_subdir} \X PipeDates
SeriesPaths  == {output_path(PipeModel), V_MODEL_CONFIGS[PipeModel].index_csv}
AuditPaths   == {audit_path(MODEL_CONFIGS[PipeModel].index_name, d) : d \in PipeDates}

Init ==
    /\ store = [k \in SnapshotKeys |-> None]
    /\ meta = [k \in SnapshotKeys |-> None]
    /\ series = [p \in SeriesPaths |-> None]
    /\ audits = [p \in AuditPaths |-> None]
    /\ clock = 0
    /\ result = None
    /\ outcome = NoOutcome
    /\ prices = <<>>
    /\ ret = NotCalled
    /\ runs = <<>>

\* collect.py --date date --models model, the market offering rows:
\* write_model_snapshot() opens both files with "w".
Collect(model, date, rows) ==
    /\ store' = [store EXCEPT ![<<model, date>>] = Some(rows)]
    /\ meta' = [meta EXCEPT ![<<model, date>>] =
                    Some([provenance_sha256 |-> Some(sha256(rows))])]
    /\ outcome' = [cmd |-> "collect", model |-> model]
    /\ UNCHANGED <<series, audits, clock, result, filterVars, runs>>

\* The audit document is written before the value is looked at.
main_publish_audits_null(model, end_date, window_days, index_name, r) ==
    IF r.index_value = None
    THEN /\ UNCHANGED series
         /\ audits' = write_audit(r, end_date, index_name)
         /\ outcome' = [cmd |-> "calculate", model |-> model, end_date |-> end_date,
                        window_days |-> window_days, published |-> FALSE, result |-> r]
    ELSE /\ series' = append_to_index(r, output_path(model))
         /\ audits' = write_audit(r, end_date, index_name)
         /\ outcome' = [cmd |-> "calculate", model |-> model, end_date |-> end_date,
                        window_days |-> window_days, published |-> TRUE, result |-> r]

\* main() once calculate() has returned r: it returns at once when there is
\* no value, else appends the row and writes the audit document.
main_publish(model, end_date, window_days, index_name, r) ==
    IF r.index_value = None
    THEN /\ UNCHANGED <<series, audits>>
         /\ outcome' = [cmd |-> "calculate", model |-> model, end_date |-> end_date,
                        window_days |-> window_days, published |-> FALSE, result |-> r]
    ELSE /\ series' = append_to_index(r, output_path(model))
         /\ audits' = write_audit(r, end_date, index_name)
         /\ outcome' = [cmd |-> "calculate", model |-> model, end_date |-> end_date,
                        window_days |-> window_days, published |-> TRUE, result |-> r]

\* calculate.py --end-date end_date --window window_days --model model.
Main(model, end_date, window_days) ==
    /\ clock < MaxClock
    /\ clock' = clock + 1
    /\ main_publish(model, end_date, window_days, MODEL_CONFIGS[model].index_name,
                    calculate(MODEL_CONFIGS[model].data_subdir, end_date, window_days,
                              MODEL_CONFIGS[model].index_name))
    /\ UNCHANGED <<store, meta, result, filterVars, runs>>

\* verify.py --end-date end_date --model model.
Verify(model, end_date) ==
    /\ outcome' = verify(end_date, model)
    /\ UNCHANGED <<store, meta, series, audits, clock, result, filterVars, runs>>

Next ==
    \/ \E date \in PipeDates, rows \in Offers : Collect(PipeModel, date, rows)
    \/ \E end_date \in PipeDates, window_days \in Windows :
           Main(PipeModel, end_date, window_days)
    \/ \E end_date \in PipeDates : Verify(PipeModel, end_date)

Spec == Init /\ [][Next]_vars

---------------------------------------------------------------------------
(* Properties of the outlier filter, under SpecFilter.                     *)

Called == ret.branch # "not_called"

AllSame(s) == \A i \in DOMAIN s : s[i] = s[1]

Scenario11 == <<1, 1, 1, 1, 1, 1, 1, 1, 1, 1, 100>>

\* C5: a call of remove_outliers on a rearrangement of the list of the call
\* before it returns the same multiset of kept prices and the same removed
\* count (either module's copy of the function).
C5_OrderIndependent ==
    [][(Called /\ Called') =>
          /\ SameMultiset(ret'.cleaned, ret.cleaned)
          /\ ret'.n_removed = ret.n_removed]_vars

C5_Witness ==
    /\ ret.branch = "threshold"
    /\ ret.n_removed > 0
    /\ prices # sorted(prices)
    /\ Cardinality(Range(prices)) = 3

\* C6 as stated: on the 11 prices [1 x 10, 100] the value 100 survives, the
\* cleaned list is the input and nothing is removed.
C6_Original_100Survives ==
    (Called /\ prices = Scenario11) =>
        /\ ret.cleaned = prices
        /\ ret.n_removed = 0

\* C6 as amended: on the 11 prices [1 x 10, 100] trim_n is 1, the trimmed
\* mean over the middle 9 values is 1, and the value 100 is removed: the
\* cleaned list is the ten 1s and the removed count is 1.
C6_Scenario100Removed ==
    (Called /\ prices = Scenario11) =>
        /\ trim_n(Len(prices)) = 1
        /\ Len(trimmed(prices)) = 9
        /\ SeqSum(trimmed(prices)) = 9
        /\ ret.cleaned = <<1, 1, 1, 1, 1, 1, 1, 1, 1, 1>>
        /\ ret.n_removed = 1

C6_Witness ==
    /\ prices = Scenario11
    /\ ret.fn = "calculate"
    /\ ret.branch = "threshold"
    /\ ret.n_removed = 1

\* C7: on fewer than 4 prices (the empty list included) remove_outliers
\* returns the input unchanged with removed count 0.
C7_SmallSampleIdentity ==
    (Called /\ Len(prices) < 4) =>
        /\ ret.cleaned = prices
        /\ ret.n_removed = 0

C7_Witness ==
    /\ Called
    /\ Len(prices) = 3
    /\ Cardinality(Range(prices)) = 3
    /\ ret.cleaned = prices

\* C8: on 4 or more prices that are all the same value remove_outliers
\* returns the input with removed count 0, by the return on a zero standard
\* deviation: the threshold comparison is never made.
C8_ZeroDispersion ==
    (Called /\ Len(prices) >= 4 /\ AllSame(prices)) =>
        /\ ret.cleaned = prices
        /\ ret.n_removed = 0
        /\ ret.branch = "zero_stdev"

C8_Witness ==
    /\ Called
    /\ Len(prices) = 10
    /\ AllSame(prices)
    /\ ret.branch = "zero_stdev"

---------------------------------------------------------------------------
(* Properties of calculate(), under SpecCalc.  They are stated on the      *)
(* record of the last call, from the files of its window.                  *)

STATUS_EMPTIED == "empty_after_outlier_removal"   \* the spec's empty_after_filter

FilePrices(f) == IF f = None THEN <<>> ELSE parsed_prices(Val(f))

Kept(f) == remove_outliers(FilePrices(f), 5).cleaned

Admitted(f) == Len(FilePrices(f)) >= 10 /\ Kept(f) # <<>>

RECURSIVE PoolOf(_)
PoolOf(files) ==
    IF files = <<>> THEN <<>>
    ELSE (IF Admitted(Head(files)) THEN Kept(Head(files)) ELSE <<>>) \o PoolOf(Tail(files))

IncludedDays(r) == {i \in DOMAIN r.daily : r.daily[i].status = "included"}

IsNullResult(r) ==
    /\ r.index_value = None
    /\ r.low_confidence = TRUE
    /\ r.low_confidence_reason = Some("no valid observations in window")
    /\ r.valid_days = 0

\* e is the k-th smallest element of s.
IsKth(e, k, s) ==
    /\ Cardinality({i \in DOMAIN s : s[i] < e}) < k
    /\ k <= Cardinality({i \in DOMAIN s : s[i] <= e})

\* v (a count of 1e-4) is the median of s (counts of 1e-6) rounded to 4
\* decimals, a tie going to the even count.
IsRoundedMedian(v, s) ==
    \E lo \in Range(s), hi \in Range(s) :
        /\ IsKth(lo, (Len(s) + 1) \div 2, s)
        /\ IsKth(hi, Len(s) \div 2 + 1, s)
        /\ Abs(200 * v - (lo + hi)) <= 100
        /\ (Abs(200 * v - (lo + hi)) = 100 => v % 2 = 0)

WithoutTimestamp(r) == [f \in (DOMAIN r) \ {"calculated_utc"} |-> r[f]]

\* C2: a call of calculate() writes nothing (snapshots, series and audits stay
\* as they were), and when it follows a call with the same model directory,
\* end date, window length and index name over the same snapshot files, it
\* returns a result equal in every field but calculated_utc.
C2_Idempotent ==
    [][(clock' # clock) =>
          /\ store' = store
          /\ meta' = meta
          /\ series' = series
          /\ audits' = audits
          /\ (result # None
                /\ SameCall(Val(result), Val(result').model_dir, Val(result').end_date,
                            Val(result').window_days, Val(result').index_name)
                /\ Val(result).inputs = Val(result').inputs)
              => WithoutTimestamp(Val(result').ret) = WithoutTimestamp(Val(result).ret)]_vars

C2_Witness ==
    /\ result # None
    /\ Val(result).repeat >= 1
    /\ Val(result).ret.index_value # None
    /\ Val(result).ret.calculated_utc = 1
    /\ Val(result).ret.valid_days >= 2

\* C3: when no day of the window is included (in particular when every day
\* is missing) calculate() returns index_value = null, low_confidence = true,
\* the reason "no valid observations in window" and valid_days = 0; and
\* index_value is null in no other case.
C3_EmptyPool ==
    result # None =>
        LET c == Val(result)
            r == c.ret
        IN  /\ (IncludedDays(r) = {}) => IsNullResult(r)
            /\ (\A i \in DOMAIN c.inputs : FilePrices(c.inputs[i]) = <<>>) => IsNullResult(r)
            /\ (c.all_prices = <<>>) => IsNullResult(r)
            /\ (r.index_value = None) => (IncludedDays(r) = {} /\ c.all_prices = <<>>)

C3_Witness ==
    /\ result # None
    /\ Val(result).ret.index_value = None
    /\ \E i \in DOMAIN Val(result).ret.daily :
          Val(result).ret.daily[i].status = "low_confidence"
    /\ \E i \in DOMAIN Val(result).ret.daily :
          Val(result).ret.daily[i].status = "missing"

\* C4: when the pool is not empty calculate() returns a non-null
\* index_value, the median of the pool rounded to 4 decimals;
\* low_confidence is true exactly when valid_days < 3; the reason is a
\* non-empty string when low_confidence is true and null otherwise.
C4_AdvisoryLowConfidence ==
    (result # None /\ Val(result).all_prices # <<>>) =>
        LET c == Val(result)
            r == c.ret
        IN  /\ r.index_value # None
            /\ IsRoundedMedian(Val(r.index_value), c.all_prices)
            /\ c.all_prices = PoolOf(c.inputs)
            /\ r.valid_days = Cardinality(IncludedDays(r))
            /\ r.low_confidence = (r.valid_days < 3)
            /\ r.low_confidence => (r.low_confidence_reason # None
                                    /\ Val(r.low_confidence_reason) # "")
            /\ ~r.low_confidence => r.low_confidence_reason = None

C4_Witness ==
    /\ result # None
    /\ Val(result).ret.index_value # None
    /\ Val(result).window_days = 7
    /\ Val(result).ret.valid_days = 3
    /\ Val(result).ret.low_confidence = FALSE
    /\ Cardinality({i \in 1..7 : Val(result).ret.daily[i].status = "missing"}) = 4

\* C10: calculate() gives every date of the window one status, decided by
\* that date's file alone: missing when the file is absent or has no
\* parseable price, low_confidence when it has 1 to 9, emptied when it has
\* 10 or more and the filter keeps none, included otherwise.  The pool is
\* the cleaned prices of the included days, in the order of the dates, and
\* valid_days counts the included days.
C10_PerDayAdmission ==
    result # None =>
        LET c == Val(result)
            r == c.ret
        IN  /\ DOMAIN r.daily = DOMAIN c.inputs
            /\ \A i \in DOMAIN r.daily :
                  LET n  == Len(FilePrices(c.inputs[i]))
                      st == r.daily[i].status
                  IN  /\ (st = "missing") = (n = 0)
                      /\ (st = "low_confidence") = (n >= 1 /\ n <= 9)
                      /\ (st = STATUS_EMPTIED) = (n >= 10 /\ Kept(c.inputs[i]) = <<>>)
                      /\ (st = "included") = (n >= 10 /\ Kept(c.inputs[i]) # <<>>)
                      /\ (st = "included") => r.daily[i].n_used = Len(Kept(c.inputs[i]))
                      /\ (st \in {"low_confidence", STATUS_EMPTIED}) => r.daily[i].n_used = 0
            /\ c.all_prices = PoolOf(c.inputs)
            /\ r.valid_days = Cardinality(IncludedDays(r))

C10_Witness ==
    /\ result # None
    /\ Val(result).window_days = 7
    /\ \E i \in 1..7 : Val(result).ret.daily[i].status = "missing"
                       /\ Val(result).inputs[i] = Some(FileUnparseable)
    /\ \E i \in 1..7 : Val(result).ret.daily[i].status = "low_confidence"
    /\ \E i \in 1..7 : Val(result).ret.daily[i].status = "included"
                       /\ Val(result).ret.daily[i].n_removed = 1

---------------------------------------------------------------------------
(* Properties of the pipeline, under Spec.  A run of verify writes no file *)
(* and every other run replaces outcome, so in a state whose outcome is a  *)
(* verify run the snapshots and the series are the ones that run read.     *)

Verified == outcome.cmd = "verify"

\* The pool of the 7 days that end on the verified date.
VerifiedPool ==
    PoolOf(window_files(MODEL_CONFIGS[outcome.model].data_subdir, outcome.end_date, 7))

\* The index_value cells (column 5) of the rows whose end_date cell
\* (column 2) is the date d, in the series calculate.py publishes for model.
PublishedCells(model, d) ==
    LET f == series_file(output_path(model)) IN
    IF f = None THEN <<>>
    ELSE LET rows == SelectSeq(Tail(Val(f)), LAMBDA row : row[2] = <<d>>)
         IN  [i \in DOMAIN rows |-> rows[i][5]]

\* The decimal digits d1..d4 after the integer part: <<1, 8, 3, 4>> is 1.834.
CellValue(cell) ==
    LET digit(i) == IF i <= Len(cell) THEN cell[i] ELSE 0
    IN  10000 * digit(1) + 1000 * digit(2) + 100 * digit(3) + 10 * digit(4) + digit(5)

\* C1 as the specification words it: a verify run that directly follows a
\* calculate run with the default window that appended a row for the same key
\* and end date (so that no snapshot changed in between) ends in MATCH with
\* exit status 0.
C1_RoundTrip ==
    [][(/\ outcome.cmd = "calculate"
        /\ outcome.published
        /\ outcome.window_days = 7
        /\ outcome'.cmd = "verify"
        /\ outcome'.model = outcome.model
        /\ outcome'.end_date = outcome.end_date)
       => (outcome'.status = "MATCH" /\ outcome'.exit_code = 0)]_vars

\* C9: a verify run ends in one of MATCH, MISMATCH, NOT_FOUND, NO_DATA:
\* NO_DATA exactly when the pool of its 7 days is empty, whatever the series
\* holds; else NOT_FOUND exactly when the series has no row with a value for
\* the end date; else it reproduces the rounded median of the pool, MATCH
\* exactly when that equals the published value, and MISMATCH reports their
\* absolute difference (published 1.8340, reproduced 1.8341: MISMATCH with
\* 0.0001).  The exit status is 0 for MATCH and non-zero for the other three.
C9_VerifyOutcomes ==
    Verified =>
        LET pool   == VerifiedPool
            cells  == PublishedCells(outcome.model, outcome.end_date)
            usable == cells # <<>> /\ cells[1] # <<>>
        IN  /\ outcome.status \in {"MATCH", "MISMATCH", "NOT_FOUND", "NO_DATA"}
            /\ (outcome.status = "NO_DATA") <=> (pool = <<>>)
            /\ (outcome.status = "NOT_FOUND") <=> (pool # <<>> /\ ~usable)
            /\ (outcome.status \in {"MATCH", "MISMATCH"}) =>
                  /\ outcome.reproduced # None
                  /\ IsRoundedMedian(Val(outcome.reproduced), pool)
                  /\ outcome.published = Some(CellValue(cells[1]))
            /\ (outcome.status = "MATCH") <=>
                  (pool # <<>> /\ usable /\ IsRoundedMedian(CellValue(cells[1]), pool))
            /\ (outcome.status = "MISMATCH") =>
                  /\ outcome.diff = Some(Abs(Val(outcome.reproduced) - Val(outcome.published)))
                  /\ Val(outcome.diff) > 0
            /\ (outcome.published = Some(18340) /\ outcome.reproduced = Some(18341)) =>
                  (outcome.status = "MISMATCH" /\ outcome.diff = Some(1))
            /\ (outcome.exit_code = 0) <=> (outcome.status = "MATCH")
            /\ (outcome.exit_code # 0) <=>
                  (outcome.status \in {"MISMATCH", "NOT_FOUND", "NO_DATA"})

\* A verify run that found 1.8340 published and reproduced 1.8341.
C9_Witness ==
    /\ Verified
    /\ outcome.published = Some(18340)
    /\ outcome.reproduced = Some(18341)
    /\ outcome.status = "MISMATCH"

---------------------------------------------------------------------------
(* The window walk, under SpecCalc.                                        *)

\* C11: a call of calculate() for the end date e and the window length w
\* returns exactly w daily summaries, the i-th for the date e - (w - i): the
\* w consecutive dates that end on e, oldest first, whatever the statuses
\* of the days are, with or without an index value.
C11_WindowWalk ==
    result # None =>
        LET c == Val(result)
            w == c.window_days
        IN  /\ Len(c.ret.daily) = w
            /\ \A i \in 1..w : c.ret.daily[i].date = c.end_date - (w - i)
            /\ c.ret.daily[w].date = c.end_date

\* A 7-day walk over missing, thin and included days whose last day, the end
\* date itself, is missing and follows an included day.
C11_Witness ==
    /\ result # None
    /\ Val(result).window_days = 7
    /\ Val(result).ret.daily[7].status = "missing"
    /\ Val(result).ret.daily[6].status = "included"
    /\ Val(result).ret.daily[5].status = "low_confidence"
    /\ Val(result).ret.daily[1].status = "missing"

---------------------------------------------------------------------------
(* Publication alone: the snapshots are drawn in PublishInit and never     *)
(* rewritten, and every step is one run of calculate.py.                   *)

PublishFiles == {None, Some(FileNine), Some(FileA)}

PublishInit ==
    /\ store \in [{MODEL_CONFIGS[PipeModel].data_subdir} \X Dates -> PublishFiles]
    /\ meta = [k \in {MODEL_CONFIGS[PipeModel].data_subdir} \X Dates |-> None]
    /\ series = [p \in SeriesPaths |-> None]
    /\ audits = [p \in {audit_path(MODEL_CONFIGS[PipeModel].index_name, d) : d \in Dates}
                    |-> None]
    /\ clock = 0
    /\ result = None
    /\ outcome = NoOutcome
    /\ prices = <<>>
    /\ ret = NotCalled
    /\ runs = <<>>

PublishNext == \E end_date \in Dates, window_days \in Windows :
                   Main(PipeModel, end_date, window_days)

SpecPublish == PublishInit /\ [][PublishNext]_vars

\* The lines of a series file, none while the file does not exist.
Lines(f) == IF f = None THEN <<>> ELSE Val(f)

\* A step that is a run of calculate.py.
PublishRun == outcome'.cmd = "calculate" /\ clock' # clock

\* C12: a run of calculate.py whose result has no index value leaves every
\* series file and every audit document as it was.  A run whose result has a
\* value, low confidence or not, appends exactly one row to its series (after
\* the header, when the file is new), the row of its end date and value, and
\* writes its result as the audit document of that index and end date; no
\* other series file and no other audit document changes.
C12_NullBlocksPersistence ==
    [][PublishRun =>
          LET r    == outcome'.result
              path == output_path(outcome'.model)
              doc  == audit_path(MODEL_CONFIGS[outcome'.model].index_name, outcome'.end_date)
              old  == Lines(series[path])
              new  == Lines(series'[path])
          IN  IF r.index_value = None
              THEN series' = series /\ audits' = audits /\ ~outcome'.published
              ELSE /\ outcome'.published
                   /\ Len(new) = Max(Len(old), 1) + 1
                   /\ \A i \in 1..Len(old) : new[i] = old[i]
                   /\ new[1] = index_header
                   /\ new[Len(new)][2] = <<outcome'.end_date>>
                   /\ CellValue(new[Len(new)][5]) = Val(r.index_value)
                   /\ \A q \in (DOMAIN series) \ {path} : series'[q] = series[q]
                   /\ audits'[doc] = Some(r)
                   /\ \A q \in (DOMAIN audits) \ {doc} : audits'[q] = audits[q]]_vars

\* A run without a value after a run that published a low-confidence value:
\* the series still holds that one row and the audit document of that run.
C12_Witness ==
    /\ outcome.cmd = "calculate"
    /\ ~outcome.published
    /\ outcome.result.index_value = None
    /\ \E p \in DOMAIN series :
          /\ Len(Lines(series[p])) = 2
          /\ series[p][1][2][8] = <<"True">>
    /\ \E q \in DOMAIN audits : audits[q] # None /\ Val(audits[q]).low_confidence

---------------------------------------------------------------------------
(* Integrity: the snapshots are drawn in IntegrityInit with the metadata   *)
(* the collector wrote for them; afterwards metadata documents are edited  *)
(* or deleted by hand, and calculate.py and verify.py run.                 *)

IntegrityFiles == {None, Some(FileUnparseable), Some(FileNine), Some(FileA), Some(FileB)}

\* A metadata file as verify_hash() may find it: absent, without a recorded
\* hash, or with the hash of some snapshot.
MetaDocs == {None,
             Some([provenance_sha256 |-> None]),
             Some([provenance_sha256 |-> Some(sha256(FileA))])}

collected_meta(f) ==
    IF f = None THEN None ELSE Some([provenance_sha256 |-> Some(sha256(Val(f)))])

IntegrityInit ==
    /\ store \in [SnapshotKeys -> IntegrityFiles]
    /\ meta = [k \in SnapshotKeys |-> collected_meta(store[k])]
    /\ series = [p \in SeriesPaths |-> None]
    /\ audits = [p \in AuditPaths |-> None]
    /\ clock = 0
    /\ result = None
    /\ outcome = NoOutcome
    /\ prices = <<>>
    /\ ret = NotCalled
    /\ runs = <<>>

\* data/<model>/<date>.meta.json is replaced by doc, or deleted.
EditMeta(model, date, doc) ==
    /\ meta[<<model, date>>] # doc
    /\ meta' = [meta EXCEPT ![<<model, date>>] = doc]
    /\ UNCHANGED <<store, series, audits, clock, result, outcome, filterVars, runs>>

IntegrityNext ==
    \/ \E date \in PipeDates, doc \in MetaDocs : EditMeta(PipeModel, date, doc)
    \/ \E end_date \in PipeDates, window_days \in Windows :
           Main(PipeModel, end_date, window_days)
    \/ \E end_date \in PipeDates : Verify(PipeModel, end_date)

SpecIntegrity == IntegrityInit /\ [][IntegrityNext]_vars

\* What a verify run reproduced and how it ended.
Ending(o) == [status |-> o.status, exit_code |-> o.exit_code, reproduced |-> o.reproduced,
              published |-> o.published, diff |-> o.diff, all_prices |-> o.all_prices]

\* C13: a verify run that follows a verify run for the same key and end date,
\* with the same snapshot CSVs and the same series and only metadata documents
\* edited in between (hash recorded or not, matching or not), reproduces the
\* same value and ends the same way: same outcome, same exit status.
C13_HashInformational ==
    [][(/\ outcome.cmd = "verify"
        /\ outcome'.cmd = "verify"
        /\ outcome'.model = outcome.model
        /\ outcome'.end_date = outcome.end_date
        /\ store' = store
        /\ series' = series)
       => Ending(outcome') = Ending(outcome)]_vars

\* A verify run that met a hash mismatch and ended in MATCH.
C13_Witness ==
    /\ outcome.cmd = "verify"
    /\ outcome.hash_failures >= 1
    /\ outcome.status = "MATCH"
    /\ outcome.exit_code = 0

\* The days of the 7-day window of a verify run o (1 the oldest) whose
\* snapshot exists with a recorded hash that is not the hash of its bytes.
SuspectDays(o) ==
    {i \in 1..7 :
        LET d == o.end_date - (7 - i)
            f == snapshot(V_MODEL_CONFIGS[o.model].data_subdir, d)
            m == meta_file(V_MODEL_CONFIGS[o.model].data_subdir, d)
        IN  /\ f # None
            /\ m # None
            /\ Val(m).provenance_sha256 # None
            /\ Val(Val(m).provenance_sha256) # sha256(Val(f))}

AnnotatedDays(o) == {i \in DOMAIN o.lines : o.lines[i].hash_status = "HASH MISMATCH"}

\* C14 as the specification words it: a verify run annotates the output line
\* of every day of its window whose snapshot's hash differs from the recorded
\* one, whatever the day's admission status, shows a warning with the number
\* of those days, and that number equals the number of annotated lines.
C14_HashFailuresSurfaced ==
    [][(outcome'.cmd = "verify" /\ outcome' # outcome) =>
          /\ SuspectDays(outcome') \subseteq AnnotatedDays(outcome')
          /\ outcome'.hash_failures = Cardinality(SuspectDays(outcome'))
          /\ outcome'.hash_failures = Cardinality(AnnotatedDays(outcome'))
          /\ outcome'.warning = (outcome'.hash_failures > 0)]_vars

---------------------------------------------------------------------------
(* The collector and the snapshots, under Spec.                            *)

\* C15 as the specification words it: once the snapshot of a (model, date)
\* has been written, a collector run leaves that snapshot file and its
\* recorded hash as they were.
C15_SnapshotImmutable ==
    [][outcome'.cmd = "collect" =>
          \A k \in DOMAIN store :
              store[k] # None => (store'[k] = store[k] /\ meta'[k] = meta[k])]_vars

---------------------------------------------------------------------------
(* Runs of calculate.py side by side.  A run is main() cut where another   *)
(* process can get in between: calculate(), the test                       *)
(* "not output_path.exists()", open(output_path, "a"), the write of the    *)
(* buffered lines when the file is closed, and write_audit().  runs holds  *)
(* every run started so far.                                               *)

ConcModels == {"h100-sxm-us", "a100-pcie-us"}

ConcInit ==
    /\ store = [k \in {MODEL_CONFIGS[m].data_subdir : m \in ConcModels} \X PipeDates |->
                    IF k[2] = 1 THEN Some(FileA) ELSE Some(FileB)]
    /\ meta = [k \in {MODEL_CONFIGS[m].data_subdir : m \in ConcModels} \X PipeDates |->
                    collected_meta(store[k])]
    /\ series = [p \in {output_path(m) : m \in ConcModels} |-> None]
    /\ audits = [p \in {audit_path(MODEL_CONFIGS[m].index_name, d) :
                            m \in ConcModels, d \in PipeDates} |-> None]
    /\ clock = 0
    /\ result = None
    /\ outcome = NoOutcome
    /\ prices = <<>>
    /\ ret = NotCalled
    /\ runs = <<>>

\* main() up to the return of calculate(), r being its result: a run without
\* a value ends here.
run_started(model, end_date, r) ==
    [model |-> model, end_date |-> end_date, r |-> r, write_header |-> FALSE,
     pc |-> IF r.index_value = None THEN "done" ELSE "calculated"]

\* calculate.py --end-date end_date --model model starts, for a (key, end
\* date) that no other run has.
RunStart(model, end_date) ==
    /\ clock < MaxClock
    /\ \A i \in DOMAIN runs : <<runs[i].model, runs[i].end_date>> # <<model, end_date>>
    /\ clock' = clock + 1
    /\ runs' = Append(runs, run_started(model, end_date,
                   calculate(MODEL_CONFIGS[model].data_subdir, end_date, WINDOW_DAYS,
                             MODEL_CONFIGS[model].index_name)))
    /\ UNCHANGED <<store, meta, series, audits, result, outcome, filterVars>>

\* append_to_index(): write_header = not output_path.exists().
RunCheck(i) ==
    /\ runs[i].pc = "calculated"
    /\ runs' = [runs EXCEPT ![i].pc = "checked",
                            ![i].write_header = IsNone(series_file(output_path(runs[i].model)))]
    /\ UNCHANGED <<store, meta, series, audits, clock, result, outcome, filterVars>>

\* append_to_index(): open(output_path, "a") creates the file when it is not
\* there.
RunOpen(i) ==
    /\ runs[i].pc = "checked"
    /\ runs' = [runs EXCEPT ![i].pc = "opened"]
    /\ series' = [series EXCEPT ![output_path(runs[i].model)] =
                     IF IsNone(@) THEN Some(<<>>) ELSE @]
    /\ UNCHANGED <<store, meta, audits, clock, result, outcome, filterVars>>

\* append_to_index(): the end of the with block writes the buffered lines,
\* the header when write_header and the row, at the end of the file.
RunClose(i) ==
    /\ runs[i].pc = "opened"
    /\ runs' = [runs EXCEPT ![i].pc = "appended"]
    /\ series' = [series EXCEPT ![output_path(runs[i].model)] =
                     Some(Val(@) \o (IF runs[i].write_header THEN <<index_header>> ELSE <<>>)
                                 \o <<index_row(runs[i].r)>>)]
    /\ UNCHANGED <<store, meta, audits, clock, result, outcome, filterVars>>

\* write_audit(), and the run ends.
RunAudit(i) ==
    /\ runs[i].pc = "appended"
    /\ runs' = [runs EXCEPT ![i].pc = "done"]
    /\ audits' = write_audit(runs[i].r, runs[i].end_date,
                             MODEL_CONFIGS[runs[i].model].index_name)
    /\ UNCHANGED <<store, meta, series, clock, result, outcome, filterVars>>

ConcNext ==
    \/ \E model \in ConcModels, end_date \in PipeDates : RunStart(model, end_date)
    \/ \E i \in DOMAIN runs : RunCheck(i)
    \/ \E i \in DOMAIN runs : RunOpen(i)
    \/ \E i \in DOMAIN runs : RunClose(i)
    \/ \E i \in DOMAIN runs : RunAudit(i)

SpecConcurrent == ConcInit /\ [][ConcNext]_vars

\* The runs that have a value to publish in the series p.
Publishing(p) ==
    {i \in DOMAIN runs : runs[i].r.index_value # None /\ output_path(runs[i].model) = p}

\* C16 as the specification words it: when runs for different (key, end
\* date) pairs have all ended, however their steps interleaved, every series
\* that exists starts with the header, holds no second header, and holds
\* after it exactly one row per run that published to it, the row of that
\* run's end date and value.
C16_LockFreePublication ==
    (\A i \in DOMAIN runs : runs[i].pc = "done") =>
        \A p \in DOMAIN series :
            series[p] # None =>
                LET lines == Val(series[p]) IN
                /\ Len(lines) >= 1
                /\ lines[1] = index_header
                /\ \A k \in 2..Len(lines) : lines[k] # index_header
                /\ Len(lines) = 1 + Cardinality(Publishing(p))
                /\ \A i \in Publishing(p) :
                      \E k \in 2..Len(lines) :
                          /\ lines[k][2] = <<runs[i].end_date>>
                          /\ CellValue(lines[k][5]) = Val(runs[i].r.index_value)

---------------------------------------------------------------------------
(* The rows of a series, under SpecPublish.                                *)

\* C17 as the specification words it: whatever runs of calculate.py have
\* taken place, no series file holds two rows with the same index name
\* (column 4) and the same end date (column 2).
C17_SeriesUnique ==
    \A p \in DOMAIN series :
        LET lines == Lines(series[p]) IN
        \A i \in 2..Len(lines), j \in 2..Len(lines) :
            (lines[i][2] = lines[j][2] /\ lines[i][4] = lines[j][4]) => i = j

---------------------------------------------------------------------------
(* The filter and the admitted day, under SpecFilter.                      *)

\* C18: a call of remove_outliers (either module's copy) on a list of 4 or
\* more prices returns at least one price; in particular it does so on the
\* lists of 10 or more prices, the only ones calculate() and verify() pass
\* to it, so that neither reaches its status for a day emptied by the filter
\* and each counts such a day as valid.
C18_FilterNeverEmpties ==
    (Called /\ Len(prices) >= 4) =>
        /\ ret.cleaned # <<>>
        /\ Len(ret.cleaned) + ret.n_removed = Len(prices)
        /\ ret.n_removed < Len(prices)

\* A call on 10 prices, five low and five high, that went through the
\* threshold test.
C18_Witness ==
    /\ Called
    /\ Len(prices) = 10
    /\ Count(1, prices) = 5
    /\ Count(100, prices) = 5
    /\ ret.branch = "threshold"
    /\ ret.cleaned # <<>>

---------------------------------------------------------------------------
(* The verifier's window, under Spec.                                      *)

\* What calculate() returns for the key and end date of the verify run o
\* and the window length w, over the snapshots as they are.
Recalculated(o, w) ==
    calculate(MODEL_CONFIGS[o.model].data_subdir, o.end_date, w,
              MODEL_CONFIGS[o.model].index_name)

\* The window_days cells (column 3) of the rows of the end date d in the
\* series of model.
PublishedWindows(model, d) ==
    LET lines == Lines(series_file(output_path(model))) IN
    IF lines = <<>> THEN <<>>
    ELSE LET rows == SelectSeq(Tail(lines), LAMBDA row : row[2] = <<d>>)
         IN  [i \in DOMAIN rows |-> rows[i][3]]

\* C19: a verify run finds an empty pool exactly when calculate() with
\* window_days = 7 returns no value for the same key, end date and
\* snapshots, and otherwise reproduces exactly the value that call returns,
\* whatever window length the published row records.
C19_VerifyFixedWindow ==
    Verified =>
        /\ (outcome.status = "NO_DATA") <=> (Recalculated(outcome, 7).index_value = None)
        /\ outcome.status # "NO_DATA" =>
              outcome.reproduced = Recalculated(outcome, 7).index_value

\* A verify run against a row published with --window 1: it reproduced the
\* 7-day value, which is not the 1-day value of the row, and ended in
\* MISMATCH.
C19_Witness ==
    /\ Verified
    /\ PublishedWindows(outcome.model, outcome.end_date) # <<>>
    /\ PublishedWindows(outcome.model, outcome.end_date)[1] = <<1>>
    /\ outcome.published = Recalculated(outcome, 1).index_value
    /\ outcome.reproduced = Recalculated(outcome, 7).index_value
    /\ outcome.reproduced # outcome.published
    /\ outcome.status = "MISMATCH"

=============================================================================
